---- MODULE Spec2Model ----
(***************************************************************************)
(* TerraChat browser service (src/app.py): one process, cooperative        *)
(* (asyncio) concurrency.  Every action below is the code one task runs    *)
(* between two suspension points: from the completion of the awaited       *)
(* engine call it was suspended on up to the next awaited engine call.     *)
(* An awaited engine call takes effect when it completes, and may raise.   *)
(*                                                                         *)
(* Tasks: 0 is the background launch created by lifespan, 1..NumReq are    *)
(* HTTP request handlers, NumReq+1 is lifespan's shutdown half.            *)
(* Every task calls _ensure_browser at most once, so the driver and the    *)
(* browser a task launches are named by the task's number; likewise the    *)
(* context and the page a request opens.                                   *)
(***************************************************************************)
EXTENDS Integers, FiniteSets

\* ---------------------------------------------------------------- bounds
NumReq == 2

\* ------------------------------------------------------------- constants
API_KEY == "terrachat-browser-2026"
NoHandle == -1
None == "None"
Blank == "about:blank"
Absent == "absent"

StartupTask == 0
Reqs == 1..NumReq
Lifespan == NumReq + 1
Launchers == 0..NumReq
Procs == 0..(NumReq + 1)

\* ---------------------------------------------------------------- inputs
Keys == {API_KEY, "wrong-key", None}
Urls == {"https://a.example", "https://b.example"}
BrowseEndpoints == {"/browse", "/screenshot", "/extract"}
Actions == {"read", "screenshot", "click", "fill"}
Selectors == {None, "", "#go"}
InputTexts == {None, "", "hello"}
WaitValues == {0, 1500}
\* len() of the body text a page hands out: empty, short, at and over the click
\* cap, at and over the read cap, far over both
TextLengths == {0, 10, 3000, 3001, 8000, 8001, 20000}
\* the pages of the concurrent specification are long ones
LongText == {8001}

\* BrowseRequest: the request body after pydantic validation
BrowseRequest == [url : Urls, action : Actions, selector : Selectors,
                  input_text : InputTexts, wait_ms : WaitValues]
\* the bodies of plain reads that do not wait: {"url": u, "wait_ms": 0}
ReadRequest == {q \in BrowseRequest : /\ q.action = "read"
                                      /\ q.selector = None
                                      /\ q.input_text = None
                                      /\ q.wait_ms = 0}
NoBody == [url |-> Blank, action |-> None, selector |-> None,
           input_text |-> None, wait_ms |-> 0]

\* the dict _browse builds; a key the dict lacks is Absent
EmptyResult == [url |-> Absent, title |-> Absent, action |-> Absent,
                screenshot |-> Absent, text |-> Absent, text_len |-> 0]
NoResponse == [code |-> 0, browser_ok |-> FALSE]
\* no navigation and no click or fill asked of the engine yet
NoCalls == [goto |-> 0, action |-> 0]

VARIABLES
    _playwright,   \* global: driver handle or NoHandle
    _browser,      \* global: browser handle or NoHandle
    _stats,        \* global: requests_total / requests_ok / requests_error
    drivers,       \* engine: the driver processes that run
    browsers,      \* engine: the browser processes that run (is_connected)
    contexts,      \* engine: the open browsing contexts
    ctxBrowser,    \* engine: the browser an open context lives in
    pages,         \* engine: the open pages; page p lives in context p
    pageUrl,       \* engine: the document an open page shows
    pc,            \* the awaited call each task is suspended on
    endpoint,      \* per request: the route it came through
    key,           \* per request: its X-API-Key header
    req,           \* per request: the BrowseRequest (req.action is overwritten by two routes)
    browser,       \* _browse local `browser`
    context,       \* _browse local `context`
    page,          \* _browse local `page`
    result,        \* _browse local `result`, then the response body
    target,        \* _close_browser: receiver of the pending close() / stop()
    response,      \* per request: HTTP status code and the health/status flag
    calls          \* engine: the goto and click/fill calls each request has made

vars == <<_playwright, _browser, _stats, drivers, browsers, contexts, ctxBrowser,
          pages, pageUrl, pc, endpoint, key, req, browser, context, page, result,
          target, response, calls>>

engine == <<drivers, browsers, contexts, ctxBrowser, pages, pageUrl>>
session == <<_playwright, _browser>>
locals == <<req, browser, context, page, result, target>>
inputs == <<endpoint, key>>

Init ==
    /\ _playwright = NoHandle
    /\ _browser = NoHandle
    /\ _stats = [requests_total |-> 0, requests_ok |-> 0, requests_error |-> 0]
    /\ drivers = {}
    /\ browsers = {}
    /\ contexts = {}
    /\ ctxBrowser = [c \in Reqs |-> NoHandle]
    /\ pages = {}
    /\ pageUrl = [p \in Reqs |-> Blank]
    /\ pc = [t \in Procs |-> IF t = StartupTask THEN "created"
                             ELSE IF t = Lifespan THEN "serving" ELSE "idle"]
    /\ endpoint = [r \in Reqs |-> None]
    /\ key = [r \in Reqs |-> None]
    /\ req = [r \in Reqs |-> NoBody]
    /\ browser = [r \in Reqs |-> NoHandle]
    /\ context = [r \in Reqs |-> NoHandle]
    /\ page = [r \in Reqs |-> NoHandle]
    /\ result = [r \in Reqs |-> EmptyResult]
    /\ target = [t \in Procs |-> NoHandle]
    /\ response = [r \in Reqs |-> NoResponse]
    /\ calls = [r \in Reqs |-> NoCalls]

\* ------------------------------------------------------------- helpers
\* `_browser and _browser.is_connected()` / `_browser is not None and ...`
IsConnected(b) == b # NoHandle /\ b \in browsers
BrowserLive == IsConnected(_browser)

\* Python truthiness of an Optional[str]
Truthy(s) == s # None /\ s # ""

Bump(counter) == [_stats EXCEPT ![counter] = @ + 1]

IsBrowse(t) == t \in Reqs /\ endpoint[t] \in BrowseEndpoints
IsRestart(t) == t \in Reqs /\ endpoint[t] = "/restart-browser"

\* the event loop is gone once lifespan's shutdown half has returned
Running == pc[Lifespan] # "stopped"

Reply(code) == [code |-> code, browser_ok |-> FALSE]

\* ------------------------------------------------------------- engine
\* the contexts that go away with browser b, and their pages
ContextsOf(b) == {c \in contexts : ctxBrowser[c] = b}

\* browser b goes away (closed, crashed or its driver exits): its contexts and their
\* pages go with it
BrowserGone(b) ==
    /\ browsers' = browsers \ {b}
    /\ contexts' = contexts \ ContextsOf(b)
    /\ ctxBrowser' = [c \in Reqs |-> IF c \in ContextsOf(b) THEN NoHandle
                                     ELSE ctxBrowser[c]]
    /\ pages' = pages \ ContextsOf(b)
    /\ pageUrl' = [p \in Reqs |-> IF p \in ContextsOf(b) THEN Blank ELSE pageUrl[p]]

\* --------------------------------------------------- _ensure_browser
\* _ensure_browser returns b to its caller: the background task ends, restart_browser
\* answers, _browse goes on to `await browser.new_context(...)`
Returned(t, b) ==
    /\ pc' = [pc EXCEPT ![t] = IF IsBrowse(t) THEN "new_context" ELSE "done"]
    /\ browser' = IF IsBrowse(t) THEN [browser EXCEPT ![t] = b] ELSE browser
    /\ response' = IF IsRestart(t) THEN [response EXCEPT ![t] = Reply(200)]
                   ELSE response

\* a slip: _browse leaves a failed launch to its general handler, which answers 500
RaisedGeneric(t) ==
    /\ pc' = [pc EXCEPT ![t] = IF t = StartupTask THEN "failed" ELSE "done"]
    /\ response' = IF t \in Reqs THEN [response EXCEPT ![t] = Reply(500)]
                   ELSE response
    /\ _stats' = IF IsBrowse(t) THEN Bump("requests_error") ELSE _stats
    /\ req' = IF IsBrowse(t) THEN [req EXCEPT ![t] = NoBody] ELSE req

\* _ensure_browser raises: _browse counts an error and answers 503, restart_browser
\* lets the exception through (500), the background task dies with it
Raised(t) ==
    /\ pc' = [pc EXCEPT ![t] = IF t = StartupTask THEN "failed" ELSE "done"]
    /\ response' = IF IsBrowse(t) THEN [response EXCEPT ![t] = Reply(503)]
                   ELSE IF IsRestart(t) THEN [response EXCEPT ![t] = Reply(500)]
                   ELSE response
    /\ _stats' = IF IsBrowse(t) THEN Bump("requests_error") ELSE _stats
    /\ req' = IF IsBrowse(t) THEN [req EXCEPT ![t] = NoBody] ELSE req

\* lifespan: the task made by asyncio.create_task(_ensure_browser()) runs its first step
StartupLaunch ==
    /\ Running
    /\ pc[StartupTask] = "created"
    /\ pc' = [pc EXCEPT ![StartupTask] =
                 IF BrowserLive THEN "done" ELSE "ensure_start"]
    /\ UNCHANGED <<session, _stats, engine, inputs, calls, locals, response>>

\* `_playwright = await async_playwright().start()` completes, then
\* `_playwright.chromium.launch(...)` is called on that driver
EnsureStarted(t) ==
    /\ Running
    /\ pc[t] = "ensure_start"
    /\ \E ok \in BOOLEAN :
        IF ok
        THEN /\ drivers' = drivers \cup {t}
             /\ _playwright' = t
             /\ pc' = [pc EXCEPT ![t] = "ensure_launch"]
             /\ UNCHANGED <<_stats, response, req>>
        ELSE /\ Raised(t)
             /\ UNCHANGED <<drivers, _playwright>>
    /\ UNCHANGED <<_browser, browsers, contexts, ctxBrowser, pages, pageUrl, inputs,
                   browser, context, page, result, target, calls>>

\* `_browser = await _playwright.chromium.launch(...)` completes; `return _browser`.
\* A driver that was stopped meanwhile cannot launch.
EnsureLaunched(t) ==
    /\ Running
    /\ pc[t] = "ensure_launch"
    /\ \E ok \in BOOLEAN :
        /\ ok => t \in drivers
        /\ IF ok
           THEN /\ browsers' = browsers \cup {t}
                /\ _browser' = t
                /\ Returned(t, t)
                /\ UNCHANGED <<_stats, req>>
           ELSE /\ Raised(t)
                /\ UNCHANGED <<browsers, _browser, browser>>
    /\ UNCHANGED <<_playwright, drivers, contexts, ctxBrowser, pages, pageUrl, inputs,
                   context, page, result, target, calls>>

\* ---------------------------------------------------- _close_browser
\* a slip: restart_browser answers after _close_browser without launching again
ClosedNoLaunch(t, live) ==
    /\ pc' = [pc EXCEPT ![t] = IF t = Lifespan THEN "stopped" ELSE "done"]
    /\ response' = IF t # Lifespan THEN [response EXCEPT ![t] = Reply(200)]
                   ELSE response

\* _close_browser has returned to its caller: lifespan is over, restart_browser
\* enters _ensure_browser (live: the browser handle is connected at that moment)
Closed(t, live) ==
    /\ pc' = [pc EXCEPT ![t] = IF t = Lifespan THEN "stopped"
                               ELSE IF live THEN "done" ELSE "ensure_start"]
    /\ response' = IF t # Lifespan /\ live THEN [response EXCEPT ![t] = Reply(200)]
                   ELSE response

\* entry of _close_browser up to its first await
CloseEnter(t) ==
    IF _browser # NoHandle
    THEN /\ pc' = [pc EXCEPT ![t] = "browser_close"]
         /\ target' = [target EXCEPT ![t] = _browser]
         /\ UNCHANGED response
    ELSE IF _playwright # NoHandle
    THEN /\ pc' = [pc EXCEPT ![t] = "playwright_stop"]
         /\ target' = [target EXCEPT ![t] = _playwright]
         /\ UNCHANGED response
    ELSE /\ Closed(t, FALSE)
         /\ UNCHANGED target

\* `await _browser.close()` completes, or raises on a browser that is gone already
\* (swallowed); `_browser = None`; then `if _playwright:` calls stop()
BrowserCloseDone(t) ==
    /\ Running
    /\ pc[t] = "browser_close"
    /\ BrowserGone(target[t])
    /\ _browser' = NoHandle
    /\ IF _playwright # NoHandle
       THEN /\ pc' = [pc EXCEPT ![t] = "playwright_stop"]
            /\ target' = [target EXCEPT ![t] = _playwright]
            /\ UNCHANGED response
       ELSE /\ Closed(t, FALSE)
            /\ target' = [target EXCEPT ![t] = NoHandle]
    /\ UNCHANGED <<_playwright, _stats, drivers, inputs, calls, req, browser,
                   context, page, result>>

\* `await _playwright.stop()` completes or raises (swallowed); `_playwright = None`.
\* The driver process exits and the browser it launched goes with it.
PlaywrightStopDone(t) ==
    /\ Running
    /\ pc[t] = "playwright_stop"
    /\ drivers' = drivers \ {target[t]}
    /\ BrowserGone(target[t])
    /\ _playwright' = NoHandle
    /\ target' = [target EXCEPT ![t] = NoHandle]
    /\ Closed(t, _browser # NoHandle /\ _browser \in browsers')
    /\ UNCHANGED <<_browser, _stats, inputs, calls, req, browser, context, page, result>>

\* lifespan after `yield`: uvicorn has drained the request handlers; the background
\* launch may still be in flight
Shutdown ==
    /\ pc[Lifespan] = "serving"
    /\ \A r \in Reqs : pc[r] \in {"idle", "done"}
    /\ CloseEnter(Lifespan)
    /\ UNCHANGED <<session, _stats, engine, inputs, calls, req, browser, context, page, result>>

\* the engine process dies on its own
Crash(b) ==
    /\ Running
    /\ b \in browsers
    /\ BrowserGone(b)
    /\ UNCHANGED <<session, _stats, drivers, pc, inputs, calls, locals, response>>

\* ------------------------------------------------------------ endpoints
\* a slip: a request that carries no key at all is let through
_check_auth_missing_ok(x_api_key) == x_api_key = API_KEY \/ x_api_key = None

\* _check_auth: TRUE when it returns, FALSE when it raises HTTPException(401)
_check_auth(x_api_key) == x_api_key = API_KEY

\* a request arrives at an idle slot while the server accepts connections
Arrives(r, ep, k) ==
    /\ pc[Lifespan] = "serving"
    /\ pc[r] = "idle"
    /\ endpoint' = [endpoint EXCEPT ![r] = ep]
    /\ key' = [key EXCEPT ![r] = k]

Unauthorized(r) ==
    /\ pc' = [pc EXCEPT ![r] = "done"]
    /\ response' = [response EXCEPT ![r] = Reply(401)]

\* a slip: the health probe checks the key like every other route
healthz_with_auth(r) ==
    \E k \in Keys :
        /\ Arrives(r, "/healthz", k)
        /\ IF _check_auth(k)
           THEN /\ pc' = [pc EXCEPT ![r] = "done"]
                /\ response' = [response EXCEPT ![r] =
                                   [code |-> 200, browser_ok |-> BrowserLive]]
           ELSE Unauthorized(r)
        /\ UNCHANGED <<session, _stats, engine, locals, calls>>

\* GET /healthz
healthz(r) ==
    \E k \in Keys :
        /\ Arrives(r, "/healthz", k)
        /\ pc' = [pc EXCEPT ![r] = "done"]
        /\ response' = [response EXCEPT ![r] =
                           [code |-> 200, browser_ok |-> BrowserLive]]
        /\ UNCHANGED <<session, _stats, engine, locals, calls>>

\* GET /status
status(r) ==
    \E k \in Keys :
        /\ Arrives(r, "/status", k)
        /\ IF _check_auth(k)
           THEN /\ pc' = [pc EXCEPT ![r] = "done"]
                /\ response' = [response EXCEPT ![r] =
                                   [code |-> 200, browser_ok |-> BrowserLive]]
           ELSE Unauthorized(r)
        /\ UNCHANGED <<session, _stats, engine, locals, calls>>

\* POST /restart-browser up to the first await of _close_browser
restart_browser(r) ==
    \E k \in Keys :
        /\ Arrives(r, "/restart-browser", k)
        /\ IF _check_auth(k)
           THEN CloseEnter(r)
           ELSE Unauthorized(r) /\ UNCHANGED target
        /\ UNCHANGED <<session, _stats, engine, req, browser, context, page, result, calls>>

\* a slip: the routes pass the body on as it came
Unforced(ep, body) == body

\* screenshot_only and extract_text overwrite req.action before calling _browse
Forced(ep, body) ==
    IF ep = "/screenshot" THEN [body EXCEPT !.action = "screenshot"]
    ELSE IF ep = "/extract" THEN [body EXCEPT !.action = "read"]
    ELSE body

\* POST /browse, /screenshot, /extract up to the first await of _browse:
\* requests_total += 1, then _ensure_browser either returns the live browser at once
\* or starts a launch
browse(r, routes, bodies) ==
    /\ pc[r] = "idle"
    /\ \E ep \in routes, k \in Keys, body \in bodies :
        /\ Arrives(r, ep, k)
        /\ IF _check_auth(k)
           THEN /\ req' = [req EXCEPT ![r] = Forced(ep, body)]
                /\ _stats' = Bump("requests_total")
                /\ IF BrowserLive
                   THEN /\ browser' = [browser EXCEPT ![r] = _browser]
                        /\ pc' = [pc EXCEPT ![r] = "new_context"]
                   ELSE /\ pc' = [pc EXCEPT ![r] = "ensure_start"]
                        /\ UNCHANGED browser
                /\ UNCHANGED response
           ELSE /\ Unauthorized(r)
                /\ UNCHANGED <<_stats, browser, req>>
        /\ UNCHANGED <<session, engine, context, page, result, target, calls>>

\* ---------------------------------------------------------------- _browse
\* an engine call on a page works only while the page is open
PageAlive(r) == page[r] # NoHandle /\ page[r] \in pages

\* a slip: one page kept and handed to every request
SharedPageId(r) == CHOOSE p \in Reqs : \A q \in Reqs : p <= q

\* the handles the engine gives out for a new context and a new page
NewContextId(r) == r
NewPageId(r) == r

\* _browse is over with an HTTPException: its locals are gone
Finish(r, code) ==
    /\ pc' = [pc EXCEPT ![r] = "done"]
    /\ response' = [response EXCEPT ![r] = Reply(code)]
    /\ req' = [req EXCEPT ![r] = NoBody]
    /\ browser' = [browser EXCEPT ![r] = NoHandle]
    /\ context' = [context EXCEPT ![r] = NoHandle]
    /\ page' = [page EXCEPT ![r] = NoHandle]
    /\ result' = [result EXCEPT ![r] = EmptyResult]

\* a slip: the general handler forgets to count the error
FailUncounted(r) ==
    /\ UNCHANGED _stats
    /\ IF page[r] # NoHandle
       THEN /\ pc' = [pc EXCEPT ![r] = "page_close"]
            /\ result' = [result EXCEPT ![r] = EmptyResult]
            /\ UNCHANGED <<response, req, browser, context, page>>
       ELSE Finish(r, 500)

\* `except Exception`: requests_error += 1; `if page:` awaits page.close(),
\* otherwise HTTPException(500) at once
Fail(r) ==
    /\ _stats' = Bump("requests_error")
    /\ IF page[r] # NoHandle
       THEN /\ pc' = [pc EXCEPT ![r] = "page_close"]
            /\ result' = [result EXCEPT ![r] = EmptyResult]
            /\ UNCHANGED <<response, req, browser, context, page>>
       ELSE Finish(r, 500)

Goes(r, next) ==
    /\ pc' = [pc EXCEPT ![r] = next]
    /\ UNCHANGED <<_stats, response>>

\* `context = await browser.new_context(...)` completes; context.new_page() is called
NewContextDone(r) ==
    /\ Running
    /\ pc[r] = "new_context"
    /\ \E ok \in BOOLEAN :
        /\ ok => IsConnected(browser[r])
        /\ IF ok
           THEN /\ context' = [context EXCEPT ![r] = NewContextId(r)]
                /\ contexts' = contexts \cup {NewContextId(r)}
                /\ ctxBrowser' = [ctxBrowser EXCEPT ![NewContextId(r)] = browser[r]]
                /\ Goes(r, "new_page")
                /\ UNCHANGED <<req, browser, page, result>>
           ELSE /\ Fail(r)
                /\ UNCHANGED <<contexts, ctxBrowser>>
    /\ UNCHANGED <<session, drivers, browsers, pages, pageUrl, inputs, target, calls>>

\* `page = await context.new_page()` completes; page.goto(req.url, ...) is called
NewPageDone(r) ==
    /\ Running
    /\ pc[r] = "new_page"
    /\ \E ok \in BOOLEAN :
        /\ ok => context[r] \in contexts
        /\ IF ok
           THEN /\ page' = [page EXCEPT ![r] = NewPageId(r)]
                /\ pages' = pages \cup {NewPageId(r)}
                /\ pageUrl' = [pageUrl EXCEPT ![NewPageId(r)] = Blank]
                /\ calls' = [calls EXCEPT ![r].goto = @ + 1]
                /\ Goes(r, "goto")
                /\ UNCHANGED <<req, browser, context, result>>
           ELSE /\ Fail(r)
                /\ UNCHANGED <<pages, pageUrl, calls>>
    /\ UNCHANGED <<session, drivers, browsers, contexts, ctxBrowser, inputs, target>>

\* a slip: a navigation error is not caught apart and fails the request
GotoDoneStrict(r) ==
    /\ Running
    /\ pc[r] = "goto"
    /\ \E ok \in BOOLEAN :
        /\ ok => PageAlive(r)
        /\ IF ok
           THEN /\ pageUrl' = [pageUrl EXCEPT ![page[r]] = req[r].url]
                /\ Goes(r, IF req[r].wait_ms > 0 THEN "wait" ELSE "title")
                /\ UNCHANGED <<req, browser, context, page, result>>
           ELSE /\ Fail(r)
                /\ UNCHANGED pageUrl
    /\ UNCHANGED <<session, drivers, browsers, contexts, ctxBrowser, pages, inputs,
                   calls, target>>

\* `await page.goto(...)` completes or raises; a navigation error is logged and
\* dropped, the page may have loaded all the same.  Then `if req.wait_ms > 0`.
GotoDone(r) ==
    /\ Running
    /\ pc[r] = "goto"
    /\ \E ok \in BOOLEAN, loaded \in BOOLEAN :
        /\ ok => loaded
        /\ loaded => PageAlive(r)
        /\ pageUrl' = IF loaded THEN [pageUrl EXCEPT ![page[r]] = req[r].url]
                      ELSE pageUrl
    /\ Goes(r, IF req[r].wait_ms > 0 THEN "wait" ELSE "title")
    /\ UNCHANGED <<session, drivers, browsers, contexts, ctxBrowser, pages, inputs, calls,
                   locals>>

\* an awaited page call that leaves nothing behind: on to `next`, or it raises
PageCall(r, at, next) ==
    /\ Running
    /\ pc[r] = at
    /\ \E ok \in BOOLEAN :
        /\ ok => PageAlive(r)
        /\ IF ok
           THEN Goes(r, next) /\ UNCHANGED <<req, browser, context, page, result>>
           ELSE Fail(r)
    /\ UNCHANGED <<session, engine, inputs, target, calls>>

\* an awaited page call whose value goes into the result dict, or it raises
PageRead(r, at, next, res) ==
    /\ Running
    /\ pc[r] = at
    /\ \E ok \in BOOLEAN :
        /\ ok => PageAlive(r)
        /\ IF ok
           THEN /\ result' = [result EXCEPT ![r] = res]
                /\ Goes(r, next)
                /\ UNCHANGED <<req, browser, context, page>>
           ELSE Fail(r)
    /\ UNCHANGED <<session, engine, inputs, target>>

\* `await page.wait_for_timeout(req.wait_ms)` completes; page.title() is called
WaitDone(r) == PageCall(r, "wait", "title")

\* `title = await page.title()` completes; result = {url, title, action};
\* `if req.action in (...)` calls page.screenshot()
TitleDone(r) ==
    /\ PageRead(r, "title",
                IF req[r].action \in {"screenshot", "read", "click", "fill"}
                THEN "screenshot" ELSE "context_close",
                [EmptyResult EXCEPT !.url = req[r].url, !.title = pageUrl[page[r]],
                                    !.action = req[r].action])
    /\ UNCHANGED calls

\* the branch _browse takes after the screenshot
AfterScreenshot(q) ==
    IF q.action = "read" THEN "inner_text"
    ELSE IF q.action = "click" /\ Truthy(q.selector) THEN "click"
    ELSE IF q.action = "fill" /\ Truthy(q.selector) /\ Truthy(q.input_text) THEN "fill"
    ELSE "context_close"

\* `screenshot_bytes = await page.screenshot(...)` completes; result["screenshot"];
\* then page.inner_text(), page.click() or page.fill() is called, or none of them
ScreenshotDone(r) ==
    /\ PageRead(r, "screenshot", AfterScreenshot(req[r]),
                [result[r] EXCEPT !.screenshot = pageUrl[page[r]]])
    /\ calls' = IF pc'[r] \in {"click", "fill"}
                THEN [calls EXCEPT ![r].action = @ + 1] ELSE calls

\* the text lengths are the program's constants
MaxReadText == 8000
MaxClickText == 3000
MaxEcho == 50

\* a slip: the slice keeps one character more than the cap
SliceOffByOne(n, k) == IF n < k + 1 THEN n ELSE k + 1

\* len(text[:k]) for a text of n characters
Slice(n, k) == IF n < k THEN n ELSE k

\* len() of `text[:8000] if len(text) > 8000 else text`
ReadText(n) == IF n > MaxReadText THEN Slice(n, MaxReadText) ELSE n

\* len() of `text[:3000]`
ClickText(n) == Slice(n, MaxClickText)

\* len() after re.sub / strip(): runs of blank lines and of white space shrink, a
\* tag becomes one blank, the ends are trimmed; the text never grows
Cleaned(n, lens) == {m \in lens : m <= n}

\* len() of the strings a request body carries
StrLen(x) == IF x = "#go" THEN 3 ELSE IF x = "hello" THEN 5 ELSE 0

\* len() of f"Filled '{req.selector}' with: {req.input_text[:50]}"
FillText(q) == 16 + StrLen(q.selector) + Slice(StrLen(q.input_text), MaxEcho)

\* read: `text = await page.inner_text("body")` completes, or raises and
\* page.content() is called instead
InnerTextDone(r, lens) ==
    /\ Running
    /\ pc[r] = "inner_text"
    /\ \E ok \in BOOLEAN :
        /\ ok => PageAlive(r)
        /\ IF ok
           THEN /\ \E n \in lens : \E m \in Cleaned(n, lens) :
                       result' = [result EXCEPT ![r].text = pageUrl[page[r]],
                                                ![r].text_len = ReadText(m)]
                /\ Goes(r, "context_close")
           ELSE /\ Goes(r, "content")
                /\ UNCHANGED result
    /\ UNCHANGED <<session, engine, inputs, calls, req, browser, context, page, target>>

\* read, fallback: `content = await page.content()` completes; tags are stripped
ContentDone(r, lens) ==
    /\ \E n \in lens : \E m \in Cleaned(n, lens) :
           PageRead(r, "content", "context_close",
                    [result[r] EXCEPT !.text = pageUrl[page[r]],
                                      !.text_len = ReadText(m)])
    /\ UNCHANGED calls

\* click: `await page.click(req.selector, timeout=5000)` completes
ClickDone(r) == PageCall(r, "click", "click_wait")

\* click: `await page.wait_for_timeout(1000)` completes
ClickWaitDone(r) == PageCall(r, "click_wait", "click_text")

\* click: `text = await page.inner_text("body")` completes; result["text"] = text[:3000]
ClickTextDone(r, lens) ==
    /\ \E n \in lens :
           PageRead(r, "click_text", "context_close",
                    [result[r] EXCEPT !.text = pageUrl[page[r]],
                                      !.text_len = ClickText(n)])
    /\ UNCHANGED calls

\* fill: `await page.fill(req.selector, req.input_text)` completes
FillDone(r) == PageCall(r, "fill", "fill_wait")

\* fill: `await page.wait_for_timeout(500)` completes; result["text"] = "Filled ..."
FillWaitDone(r) ==
    /\ PageRead(r, "fill_wait", "context_close",
                [result[r] EXCEPT !.text = "Filled", !.text_len = FillText(req[r])])
    /\ UNCHANGED calls

\* what each route hands back from _browse's dict
Shaped(ep, res) ==
    IF ep = "/screenshot"
    THEN [EmptyResult EXCEPT !.url = res.url, !.title = res.title,
                             !.screenshot = IF res.screenshot = Absent THEN ""
                                            ELSE res.screenshot]
    ELSE IF ep = "/extract"
    THEN [EmptyResult EXCEPT !.url = res.url, !.title = res.title,
                             !.text = IF res.text = Absent THEN "" ELSE res.text,
                             !.text_len = res.text_len]
    ELSE res

\* `await context.close()` completes: requests_ok += 1, `return result`; or it
\* raises, which only a context that is gone already does
ContextCloseDone(r) ==
    /\ Running
    /\ pc[r] = "context_close"
    /\ \E ok \in BOOLEAN :
        /\ ~ok => context[r] \notin contexts
        /\ IF ok
           THEN /\ contexts' = contexts \ {context[r]}
                /\ ctxBrowser' = [ctxBrowser EXCEPT ![context[r]] = NoHandle]
                /\ pages' = pages \ {context[r]}
                /\ pageUrl' = [pageUrl EXCEPT ![context[r]] = Blank]
                /\ _stats' = Bump("requests_ok")
                /\ pc' = [pc EXCEPT ![r] = "done"]
                /\ response' = [response EXCEPT ![r] = Reply(200)]
                /\ result' = [result EXCEPT ![r] = Shaped(endpoint[r], @)]
                /\ req' = [req EXCEPT ![r] = NoBody]
                /\ browser' = [browser EXCEPT ![r] = NoHandle]
                /\ context' = [context EXCEPT ![r] = NoHandle]
                /\ page' = [page EXCEPT ![r] = NoHandle]
           ELSE /\ Fail(r)
                /\ UNCHANGED <<contexts, ctxBrowser, pages, pageUrl>>
    /\ UNCHANGED <<session, drivers, browsers, inputs, target, calls>>

\* a slip: the handler raises the 500 without closing the page
PageCloseSkipped(r) ==
    /\ Running
    /\ pc[r] = "page_close"
    /\ Finish(r, 500)
    /\ UNCHANGED <<session, _stats, engine, inputs, target, calls>>

\* the handler's `await page.close()` completes or raises (swallowed);
\* HTTPException(500)
PageCloseDone(r) ==
    /\ Running
    /\ pc[r] = "page_close"
    /\ pages' = pages \ {page[r]}
    /\ pageUrl' = [pageUrl EXCEPT ![page[r]] = Blank]
    /\ Finish(r, 500)
    /\ UNCHANGED <<session, _stats, drivers, browsers, contexts, ctxBrowser,
                   inputs, target, calls>>

\* ------------------------------------------------------- specification
\* the session manager's steps, whoever runs them
SessionStep ==
    \/ StartupLaunch
    \/ \E t \in Launchers : EnsureStarted(t)
    \/ \E t \in Launchers : EnsureLaunched(t)
    \/ \E t \in Procs : BrowserCloseDone(t)
    \/ \E t \in Procs : PlaywrightStopDone(t)
    \/ Shutdown
    \/ \E b \in Launchers : Crash(b)

\* the steps of _browse every action takes
BrowseStep(r, lens) ==
    \/ NewContextDone(r)
    \/ NewPageDone(r)
    \/ GotoDone(r)
    \/ TitleDone(r)
    \/ ScreenshotDone(r)
    \/ InnerTextDone(r, lens)
    \/ ContentDone(r, lens)
    \/ ContextCloseDone(r)
    \/ PageCloseDone(r)

\* the steps of _browse that a wait, a click or a fill adds
ActionStep(r, lens) ==
    \/ WaitDone(r)
    \/ ClickDone(r)
    \/ ClickWaitDone(r)
    \/ ClickTextDone(r, lens)
    \/ FillDone(r)
    \/ FillWaitDone(r)

\* The service under concurrent load: NumReq requests in flight at once beside the
\* background launch and shutdown; the browse requests are plain reads of any URL.
Next ==
    \/ SessionStep
    \/ \E r \in Reqs : healthz(r)
    \/ \E r \in Reqs : status(r)
    \/ \E r \in Reqs : restart_browser(r)
    \/ \E r \in Reqs : browse(r, {"/browse"}, ReadRequest)
    \/ \E r \in Reqs : BrowseStep(r, LongText)

Spec == Init /\ [][Next]_vars

\* One request at a time beside the background launch and shutdown: every route,
\* every key, every request body.
Solo == {1}

NextOne ==
    \/ SessionStep
    \/ \E r \in Solo : healthz(r)
    \/ \E r \in Solo : status(r)
    \/ \E r \in Solo : restart_browser(r)
    \/ \E r \in Solo : browse(r, BrowseEndpoints, BrowseRequest)
    \/ \E r \in Solo : BrowseStep(r, TextLengths)
    \/ \E r \in Solo : ActionStep(r, TextLengths)

SpecOne == Init /\ [][NextOne]_vars

\* ------------------------------------------------------------- claims
InFlight(r) == pc[r] \notin {"idle", "done"}

\* C1: at most one browser engine process runs at any time, whatever the
\* interleaving of the background launch, browse requests and restarts.
C1_AtMostOneSession == Cardinality(browsers) <= 1

\* C2: every driver and every browser that runs is the one the shared handles
\* _playwright and _browser refer to, so _close_browser can still reach it.
C2_NoOrphanEngine == browsers \subseteq {_browser} /\ drivers \subseteq {_playwright}

\* C3: every open browsing context belongs to a request that is still in flight;
\* once the request has returned, its context is closed.
C3_ContextClosedOnReturn ==
    \A c \in contexts : \E r \in Reqs : InFlight(r) /\ context[r] = c

\* the step in which request r arrives and its handler runs up to its first await
Handled(r) == pc[r] = "idle" /\ pc'[r] # "idle"

\* the step in which the handler of request r returns
Returns(r) == InFlight(r) /\ pc'[r] = "done"

\* C4: on every route but /healthz a request whose key is missing or wrong is
\* answered 401 in the step it arrives, and that step changes neither the session
\* handles, nor the engine, nor the counters, nor any handler's locals.
C4_UnauthorizedDoesNothing ==
    [][\A r \in Reqs :
          (Handled(r) /\ endpoint'[r] # "/healthz" /\ key'[r] # API_KEY)
          => /\ pc'[r] = "done"
             /\ response'[r].code = 401
             /\ UNCHANGED <<session, _stats, engine, locals>>]_vars

\* C4 witness: a restart with a wrong key was answered 401 while the session is up
C4_Witness ==
    \E r \in Reqs : /\ endpoint[r] = "/restart-browser"
                    /\ key[r] = "wrong-key"
                    /\ response[r].code = 401
                    /\ BrowserLive

\* C5: a browse request with action click and no selector does not end in a
\* successful result: it is answered with an error and counted as an error,
\* not as ok (one request is served, so the counters end at ok = 0, error = 1).
C5_ClickWithoutSelectorFails ==
    [][\A r \in Solo :
          (Returns(r) /\ IsBrowse(r) /\ req[r].action = "click"
                      /\ ~Truthy(req[r].selector))
          => /\ response'[r].code # 200
             /\ _stats'.requests_ok = 0
             /\ _stats'.requests_error = 1]_vars

\* C6: a browse request with action fill that lacks selector or input_text does not
\* end in a successful result: it is answered with an error and counted as an
\* error, not as ok (one request is served: ok = 0, error = 1).
C6_FillWithoutFieldsFails ==
    [][\A r \in Solo :
          (Returns(r) /\ IsBrowse(r) /\ req[r].action = "fill"
                      /\ (~Truthy(req[r].selector) \/ ~Truthy(req[r].input_text)))
          => /\ response'[r].code # 200
             /\ _stats'.requests_ok = 0
             /\ _stats'.requests_error = 1]_vars

\* what /status would put in browser_active
StatusConnected == _browser # NoHandle /\ _browser \in browsers

RestartCompleted ==
    \E r \in Reqs : IsRestart(r) /\ pc[r] = "done" /\ response[r].code = 200

\* the step in which a restart_browser call answers 200
RestartAnswers ==
    \E r \in Reqs : /\ Returns(r)
                    /\ endpoint[r] = "/restart-browser"
                    /\ response'[r].code = 200

\* a step of the program that leaves the server serving (an engine crash is no step
\* of the program: it moves no task)
ServingStep == pc' # pc /\ pc'[Lifespan] = "serving"

\* a step of some restart_browser call inside _close_browser
RestartCloses ==
    \E t \in Reqs : pc[t] \in {"browser_close", "playwright_stop"} /\ pc'[t] # pc[t]

\* C7 as stated: when a restart answers 200 /status reports connected, and from then
\* on it keeps reporting connected through every step of the program, other
\* restarts and browse requests in flight included.
C7_ConnectedAfterRestart ==
    [][/\ RestartAnswers => StatusConnected'
       /\ (RestartCompleted /\ StatusConnected /\ ServingStep) => StatusConnected']_vars

\* C7 amended: when a restart answers 200 /status reports connected, and it keeps
\* reporting connected through every step of the program that is not the
\* _close_browser of another restart; browse requests and the background launch in
\* flight never disconnect it.
C7_ConnectedUntilNextRestart ==
    [][/\ RestartAnswers => StatusConnected'
       /\ (RestartCompleted /\ StatusConnected /\ ServingStep /\ ~RestartCloses)
          => StatusConnected']_vars

\* C7 witness: a restart has answered 200, a browse request that found no live
\* session is still launching, and /status would report connected
C7_Witness ==
    /\ RestartCompleted
    /\ StatusConnected
    /\ \E s \in Reqs : IsBrowse(s) /\ pc[s] \in {"ensure_start", "ensure_launch"}

\* C8: once lifespan's shutdown has completed no browser engine process runs.
C8_NoEngineAfterShutdown == pc[Lifespan] = "stopped" => browsers = {}

\* C9: /healthz answers 200 whatever the key and whatever the state of the session,
\* reports browser_ready exactly when the browser handle is set and connected, and
\* changes nothing: no launch, no counter, no engine state.
C9_HealthzAlwaysOk ==
    [][\A r \in Reqs :
          (Handled(r) /\ endpoint'[r] = "/healthz")
          => /\ pc'[r] = "done"
             /\ response'[r].code = 200
             /\ response'[r].browser_ok = (_browser # NoHandle /\ _browser \in browsers)
             /\ UNCHANGED <<session, _stats, engine, locals>>]_vars

\* C9 witness: a probe without a key was answered 200 with browser_ready false
\* while the browser handle is set but disconnected
C9_Witness ==
    \E r \in Reqs : /\ endpoint[r] = "/healthz"
                    /\ key[r] = None
                    /\ response[r] = [code |-> 200, browser_ok |-> FALSE]
                    /\ _browser # NoHandle
                    /\ _browser \notin browsers

\* what a response may carry for a request to url u: the page's own document, the
\* blank document of a page that did not load, nothing
OwnContent(u) == {u, Blank, Absent}

\* C10: no two requests in flight hold the same context or the same page, the page
\* a request holds shows its own URL or nothing, and every result (while it is built
\* and once it is returned) carries the request's own url and a title, screenshot
\* and text taken from its own page.
C10_Isolation ==
    /\ \A r, s \in Reqs :
          (r # s /\ InFlight(r))
          => /\ context[r] # NoHandle => context[r] # context[s]
             /\ page[r] # NoHandle => page[r] # page[s]
    /\ \A r \in Reqs :
          (InFlight(r) /\ page[r] # NoHandle)
          => /\ pageUrl[page[r]] \in {req[r].url, Blank}
             /\ result[r].url \in {req[r].url, Absent}
    /\ \A r \in Reqs :
          result[r].url # Absent
          => /\ result[r].title \in OwnContent(result[r].url)
             /\ result[r].screenshot \in OwnContent(result[r].url)
             /\ result[r].text \in OwnContent(result[r].url)

\* C10 witness: two requests in flight at once, each with its own page showing a
\* different URL, one of them already holding its title
C10_Witness ==
    \E r, s \in Reqs :
        /\ page[r] \in pages /\ page[s] \in pages
        /\ pageUrl[page[r]] \in Urls /\ pageUrl[page[s]] \in Urls
        /\ pageUrl[page[r]] # pageUrl[page[s]]
        /\ result[r].title = req[r].url

\* the step in which the _ensure_browser call of browse request r raises
EnsureFails(r) ==
    /\ IsBrowse(r)
    /\ pc[r] \in {"ensure_start", "ensure_launch"}
    /\ pc'[r] = "done"

\* C11: when _ensure_browser fails during a browse request, the request is answered
\* 503 in that step, requests_error goes up by exactly one while requests_ok and
\* requests_total stay, and the request has opened no context and no page: neither
\* before the failure, nor in that step, nor has it asked the engine for a navigation.
C11_EnsureFailureIs503 ==
    [][\A r \in Reqs :
          EnsureFails(r)
          => /\ response'[r].code = 503
             /\ _stats'.requests_error = _stats.requests_error + 1
             /\ _stats'.requests_ok = _stats.requests_ok
             /\ _stats'.requests_total = _stats.requests_total
             /\ context[r] = NoHandle /\ page[r] = NoHandle
             /\ NewContextId(r) \notin contexts' /\ NewPageId(r) \notin pages'
             /\ calls'[r] = NoCalls
             /\ UNCHANGED <<contexts, pages>>]_vars

\* C11 witness: a request through /extract whose driver started and whose
\* chromium.launch() failed was answered 503 and counted as the one error, while
\* the background launch is still in flight
C11_Witness ==
    \E r \in Reqs :
        /\ endpoint[r] = "/extract" /\ pc[r] = "done" /\ response[r].code = 503
        /\ r \in drivers
        /\ _stats = [requests_total |-> 1, requests_ok |-> 0, requests_error |-> 1]
        /\ pc[StartupTask] = "ensure_launch"

\* C12: whatever page.goto() does (it loads, it raises after a partial load, it
\* raises with nothing loaded), the step that ends it only moves the request on to
\* the wait or the title step: no counter moves, no response is set, the page is
\* kept.  And a request whose page never loaded (its title is the blank page's)
\* and whose later calls all succeeded is answered 200 by the step that closes its
\* context, with requests_ok up by one and requests_error unchanged.
C12_NavigationFailureTolerated ==
    [][\A r \in Solo :
          /\ (pc[r] = "goto" /\ pc'[r] # "goto")
             => /\ pc'[r] = IF req[r].wait_ms > 0 THEN "wait" ELSE "title"
                /\ _stats' = _stats
                /\ response'[r] = NoResponse
                /\ page'[r] = page[r] /\ context'[r] = context[r]
          /\ (pc[r] = "context_close" /\ result[r].title = Blank
                 /\ context[r] \in contexts /\ pc'[r] # "context_close")
             => /\ response'[r].code = 200
                /\ result'[r].url # Absent
                /\ _stats'.requests_ok = _stats.requests_ok + 1
                /\ _stats'.requests_error = _stats.requests_error]_vars

\* C12 witness: a click request through /browse whose navigation loaded nothing
\* went through title, screenshot and click on the blank page and was answered 200
\* and counted ok
C12_Witness ==
    \E r \in Solo :
        /\ endpoint[r] = "/browse" /\ pc[r] = "done" /\ response[r].code = 200
        /\ result[r].action = "click"
        /\ result[r].title = Blank /\ result[r].screenshot = Blank
        /\ result[r].text = Blank
        /\ calls[r] = [goto |-> 1, action |-> 1]
        /\ _stats.requests_ok = 1 /\ _stats.requests_error = 0

\* the result of request r is that of a read: the /extract route drops the action
\* key from the dict it hands back
ReadResult(r) == result[r].action = "read" \/ endpoint[r] = "/extract"

\* C13: in every result that carries a text, while _browse builds it and once it is
\* returned with 200, the text of a read is at most 8000 characters long and the
\* text of a click at most 3000, whatever the length of the text the page gave.
C13_TextCapped ==
    \A r \in Solo :
        (IsBrowse(r) /\ result[r].text # Absent)
        => /\ ReadResult(r) => result[r].text_len <= 8000
           /\ result[r].action = "click" => result[r].text_len <= 3000

\* C13 witness: a click was answered 200 with a text of exactly 3000 characters,
\* the longest a click hands back
C13_Witness ==
    \E r \in Solo :
        /\ pc[r] = "done" /\ response[r].code = 200
        /\ result[r].action = "click"
        /\ result[r].text # Absent
        /\ result[r].text_len = 3000

\* C14: within one browse request the navigation and the click or fill are never
\* asked of the engine twice, and a request that is answered 200 has navigated once
\* and, when its action is click or fill, has performed that action once.
C14_AttemptedExactlyOnce ==
    \A r \in Solo :
        /\ calls[r].goto <= 1
        /\ calls[r].action <= 1
        /\ (IsBrowse(r) /\ pc[r] = "done" /\ response[r].code = 200)
           => /\ calls[r].goto = 1
              /\ result[r].action \in {"click", "fill"} => calls[r].action = 1

\* the browse requests that passed _check_auth and so entered _browse
Entered == {r \in Reqs : IsBrowse(r) /\ key[r] = API_KEY /\ pc[r] # "idle"}

\* the browse requests whose handler has not returned yet
BrowsesInFlight == {r \in Reqs : IsBrowse(r) /\ InFlight(r)}

\* the browse requests in flight that have counted neither ok nor error yet: all
\* but those in the failure handler's `await page.close()`
Uncounted == {r \in BrowsesInFlight : pc[r] # "page_close"}

\* C15 as stated: in every reachable state requests_total = requests_ok +
\* requests_error + the number of browse requests in flight.
C15_CounterConservation ==
    _stats.requests_total =
        _stats.requests_ok + _stats.requests_error + Cardinality(BrowsesInFlight)

\* C15 amended: requests_total counts every browse request that entered _browse
\* exactly once, requests_ok counts exactly the ones answered 200, requests_error
\* exactly the ones answered 500 or 503 and the ones closing their page after a
\* failure, so requests_total = requests_ok + requests_error + the number of browse
\* requests in flight that have not counted their outcome yet.
C15_ConservationUntilCounted ==
    /\ _stats.requests_total = Cardinality(Entered)
    /\ _stats.requests_ok =
          Cardinality({r \in Entered : pc[r] = "done" /\ response[r].code = 200})
    /\ _stats.requests_error =
          Cardinality({r \in Entered : \/ pc[r] = "page_close"
                                       \/ /\ pc[r] = "done"
                                          /\ response[r].code \in {500, 503}})
    /\ _stats.requests_total =
          _stats.requests_ok + _stats.requests_error + Cardinality(Uncounted)

\* C15 witness: one request has failed and is closing its page, already counted as
\* an error, while another one is still navigating
C15_Witness ==
    \E r, s \in Reqs :
        /\ pc[r] = "page_close" /\ pc[s] = "goto"
        /\ _stats = [requests_total |-> 2, requests_ok |-> 0, requests_error |-> 1]

\* the step in which the _close_browser call of task t returns after an awaited
\* close() or stop()
CloseReturns(t) ==
    /\ pc[t] \in {"browser_close", "playwright_stop"}
    /\ pc'[t] \notin {"browser_close", "playwright_stop"}

\* the step in which task t calls _close_browser while both handles are unset
CloseAgain(t) ==
    /\ _browser = NoHandle /\ _playwright = NoHandle
    /\ \/ t = Lifespan /\ pc[t] = "serving" /\ pc'[t] = "stopped"
       \/ t \in Reqs /\ Handled(t) /\ endpoint'[t] = "/restart-browser"
                      /\ key'[t] = API_KEY

\* C16: whenever _close_browser returns, in whatever state it was called and
\* whether the engine's close() and stop() raised or not, both _browser and
\* _playwright are unset; and a call made while both are unset changes neither the
\* handles nor the engine.
C16_CloseLeavesNoHandle ==
    [][\A t \in Procs :
          /\ CloseReturns(t) => _browser' = NoHandle /\ _playwright' = NoHandle
          /\ CloseAgain(t) => UNCHANGED <<session, engine>>]_vars

\* the step in which request r, holding a page, counts its failure
FailsWithPage(r) ==
    /\ IsBrowse(r)
    /\ page[r] # NoHandle
    /\ pc[r] # "page_close"
    /\ _stats'.requests_error = _stats.requests_error + 1

\* C17: a browse request that fails while it holds a page (in wait, title,
\* screenshot, text extraction, click, fill or context.close()) is not answered in
\* that step: it goes on to close its page.  The step that ends that cleanup,
\* whether page.close() worked or raised on a page that is gone, answers 500, leaves
\* the page closed and moves no counter.
C17_PageClosedBefore500 ==
    [][\A r \in Solo :
          /\ FailsWithPage(r)
             => /\ pc'[r] = "page_close"
                /\ response'[r] = NoResponse
                /\ page'[r] = page[r]
          /\ (pc[r] = "page_close" /\ pc'[r] # "page_close")
             => /\ pc'[r] = "done"
                /\ response'[r].code = 500
                /\ page[r] \notin pages'
                /\ _stats' = _stats]_vars

\* C17 witness: a click request that had navigated and clicked failed afterwards and
\* was answered 500 and counted as an error; its page is closed, its context is not
C17_Witness ==
    \E r \in Solo :
        /\ IsBrowse(r) /\ pc[r] = "done" /\ response[r].code = 500
        /\ calls[r] = [goto |-> 1, action |-> 1]
        /\ NewPageId(r) \notin pages
        /\ NewContextId(r) \in contexts
        /\ _stats.requests_error = 1 /\ _stats.requests_ok = 0

\* the steps of _browse that only a click or a fill reaches
ActingSteps == {"click", "click_wait", "click_text", "fill", "fill_wait"}

\* C18: a request through /screenshot runs _browse with action screenshot and one
\* through /extract with action read, whatever its body said; neither ever asks the
\* engine for a click or a fill or is in one of their steps; and the 200 response
\* of /screenshot carries url, title and screenshot and neither text nor action.
C18_ForcedAction ==
    \A r \in Solo :
        /\ (endpoint[r] = "/screenshot" /\ InFlight(r)) => req[r].action = "screenshot"
        /\ (endpoint[r] = "/extract" /\ InFlight(r)) => req[r].action = "read"
        /\ endpoint[r] \in {"/screenshot", "/extract"}
           => /\ calls[r].action = 0
              /\ pc[r] \notin ActingSteps
        /\ (endpoint[r] = "/screenshot" /\ pc[r] = "done" /\ response[r].code = 200)
           => /\ result[r].url \in Urls
              /\ result[r].title # Absent
              /\ result[r].screenshot # Absent
              /\ result[r].text = Absent /\ result[r].text_len = 0
              /\ result[r].action = Absent

\* C18 witness: a request through /screenshot whose body carries a selector and an
\* input text (as a click or a fill does) has taken its screenshot and is closing
\* its context without any click or fill and without a text
C18_Witness ==
    \E r \in Solo :
        /\ endpoint[r] = "/screenshot" /\ pc[r] = "context_close"
        /\ req[r].selector = "#go" /\ req[r].input_text = "hello"
        /\ result[r].screenshot = req[r].url
        /\ result[r].text = Absent
        /\ calls[r] = [goto |-> 1, action |-> 0]

====
